---- MODULE Spec2Model ----
(***************************************************************************)
(* Physarum simulation (examples/Physarum/index.ts and its shaders).       *)
(*                                                                         *)
(* Numbers.  GLSL/JS floats are held in fixed point:                       *)
(*   positions, trail intensities, trigonometric values, step size,        *)
(*   sensor distance, weights:  units of 1/One  (One stands for 1.0);      *)
(*   angles: units of half a degree (PI units stand for pi radians);       *)
(*   the heading channel (angle / 2 pi) is kept in the same angle units,   *)
(*   so that  z * 2 pi  and  angle / (2 pi)  are exact;                    *)
(*   time: milliseconds.                                                   *)
(* Arithmetic is exact on these grids (products are rounded to the grid);  *)
(* the rounding of 32-bit floats is not part of the model.                 *)
(***************************************************************************)
EXTENDS Integers, Sequences, FiniteSets, TLC

One == 1000
PI == 360
TwoPi == 2 * PI

Min2(a, b) == IF a < b THEN a ELSE b
Max2(a, b) == IF a > b THEN a ELSE b
clamp(x, lo, hi) == Min2(Max2(x, lo), hi)

\* F(x), with x evaluated once (a local variable holding the value x)
Bind(x, F(_)) == CHOOSE y \in {F(v) : v \in {x}} : TRUE

\* a * b for two fixed-point numbers, rounded to the nearest grid point
\* (computed in parts so that no intermediate value leaves 32 bits)
Mul(a, b) ==
  (a \div One) * b + (a % One) * (b \div One)
    + ((a % One) * (b % One) + One \div 2) \div One

\* floor(x) and fract(x) = x - floor(x) of GLSL
floor(x) == (x \div One) * One
fract(x) == x - floor(x)

\* sin on [0, pi] (Bhaskara's rational approximation, exact at 0, 30, 90,
\* 150 and 180 degrees), in units of 1/One
SinHalf(x) == (16 * One * x * (PI - x)) \div (5 * PI * PI - 4 * x * (PI - x))

sin(a) ==
  LET r == a % TwoPi
  IN  IF r <= PI THEN SinHalf(r) ELSE 0 - SinHalf(r - PI)

cos(a) == sin(a + PI \div 2)

\* Math.ceil(Math.sqrt(n)) for n >= 0
CeilSqrt(n) == CHOOSE s \in 0..n : s * s >= n /\ (s = 0 \/ (s - 1) * (s - 1) < n)

(***************************************************************************)
(* binary32 ("highp float") arithmetic, used where a claim depends on the  *)
(* rounding of the shader's floats.  A float is the record [s, m, e] with  *)
(* value s * m * 2^e: s is 1 or -1 and m is in [2^23, 2^24), or m = 0 for  *)
(* zero.  +, -, *, / round to nearest, ties to even.  Exponents stay well  *)
(* inside the normal range in every use, so infinities, NaNs and           *)
(* subnormals are left out.                                                *)
(***************************************************************************)
F32(s, m, e) == [s |-> s, m |-> m, e |-> e]

F32Zero == F32(1, 0, 0)

\* the number of bits of M, 0 <= M < 2^30
BitLen(M) == CHOOSE k \in 0..30 : M < 2^k /\ (k = 0 \/ M >= 2^(k - 1))

\* s * M * 2^e rounded to a float.  M < 2^30; where M stands for an inexact
\* value its lowest bit is set and it has at least 26 bits.
RoundF32(s, M, e) ==
  IF M = 0 THEN F32Zero
  ELSE Bind(BitLen(M), LAMBDA len :
         IF len <= 24 THEN F32(s, M * 2^(24 - len), e - (24 - len))
         ELSE LET drop == len - 24
                  q    == M \div 2^drop
                  r    == M % 2^drop
                  half == 2^(drop - 1)
                  up   == r > half \/ (r = half /\ q % 2 = 1)
              IN  IF up /\ q + 1 = 2^24 THEN F32(s, 2^23, e + drop + 1)
                  ELSE F32(s, IF up THEN q + 1 ELSE q, e + drop))

\* x shifted right by d bits, the lowest bit set when a 1 was shifted out
ShiftRightSticky(x, d) ==
  IF d >= 30 THEN (IF x = 0 THEN 0 ELSE 1)
  ELSE LET q == x \div 2^d
       IN  IF x % 2^d = 0 \/ q % 2 = 1 THEN q ELSE q + 1

F32Neg(a) == IF a.m = 0 THEN a ELSE F32(0 - a.s, a.m, a.e)

\* a + b
F32Add(a, b) ==
  IF a.m = 0 THEN b
  ELSE IF b.m = 0 THEN a
  ELSE LET swap == a.e < b.e \/ (a.e = b.e /\ a.m < b.m)
           big   == IF swap THEN b ELSE a
           small == IF swap THEN a ELSE b
           S8    == ShiftRightSticky(small.m * 8, big.e - small.e)
       IN  RoundF32(big.s,
                    IF big.s = small.s THEN big.m * 8 + S8 ELSE big.m * 8 - S8,
                    big.e - 3)

\* a - b
F32Sub(a, b) == F32Add(a, F32Neg(b))

\* a * b: the 48-bit product of the mantissas from their 12-bit halves
F32Mul(a, b) ==
  IF a.m = 0 \/ b.m = 0 THEN F32Zero
  ELSE LET ah  == a.m \div 4096
           al  == a.m % 4096
           bh  == b.m \div 4096
           bl  == b.m % 4096
           mid == ah * bl + al * bh
           t1  == al * bl + (mid % 4096) * 4096
           low  == t1 % 2^24
           high == ah * bh + mid \div 4096 + t1 \div 2^24
           top  == high * 8 + low \div 2^21
       IN  RoundF32(a.s * b.s,
                    IF low % 2^21 = 0 \/ top % 2 = 1 THEN top ELSE top + 1,
                    a.e + b.e + 21)

RECURSIVE DivBits(_, _, _, _)
\* n more bits of the quotient r / d (r < d): <<quotient, remainder>>
DivBits(r, d, n, q) ==
  IF n = 0 THEN <<q, r>>
  ELSE IF 2 * r >= d THEN DivBits(2 * r - d, d, n - 1, 2 * q + 1)
  ELSE DivBits(2 * r, d, n - 1, 2 * q)

\* a / b, b # 0
F32Div(a, b) ==
  IF a.m = 0 THEN F32Zero
  ELSE Bind(IF a.m >= b.m THEN DivBits(a.m - b.m, b.m, 26, 1)
            ELSE DivBits(a.m, b.m, 26, 0), LAMBDA qr :
         RoundF32(a.s * b.s,
                  IF qr[2] = 0 \/ qr[1] % 2 = 1 THEN qr[1] ELSE qr[1] + 1,
                  a.e - b.e - 26))

\* a < b
F32Less(a, b) ==
  LET MagLess(x, y) == y.m # 0 /\ (x.m = 0 \/ x.e < y.e \/ (x.e = y.e /\ x.m < y.m))
  IN  IF a.s = 1 /\ b.s = 1 THEN MagLess(a, b)
      ELSE IF a.s = -1 /\ b.s = -1 THEN MagLess(b, a)
      ELSE a.s = -1

\* floor(a) of GLSL, |a| < 2^24
F32Floor(a) ==
  IF a.e >= 0 THEN a
  ELSE LET sh    == 0 - a.e
           whole == IF sh >= 24 THEN 0 ELSE a.m \div 2^sh
           exact == sh < 24 /\ a.m % 2^sh = 0
       IN  IF a.s = 1 \/ exact THEN RoundF32(a.s, whole, 0)
           ELSE RoundF32(-1, whole + 1, 0)

\* fract(a) of GLSL: a - floor(a)
F32Fract(a) == F32Sub(a, F32Floor(a))

(***************************************************************************)
(* Textures.  A texture is a record [w, h, data]; data is the sequence of  *)
(* its texels, row by row.  Agent textures hold records [x, y, z, a]       *)
(* (RGBA), trail textures hold the R channel (G and B always equal it).    *)
(***************************************************************************)
ZeroTexel == [x |-> 0, y |-> 0, z |-> 0, a |-> 0]

\* what a sampler uniform whose value is null reads from
NullTexture == [w |-> 0, h |-> 0, data |-> <<>>]

\* index of the texel that a NearestFilter / ClampToEdge lookup at the
\* coordinate un/ud hits in a row of n texels
NearestIndex(un, ud, n) == clamp((un * n) \div ud, 0, n - 1)

\* texture2D(tex, (un/ud, vn/vd))
texture2D(tex, un, ud, vn, vd) ==
  tex.data[NearestIndex(vn, vd, tex.h) * tex.w + NearestIndex(un, ud, tex.w) + 1]

\* texture2D(uTrailMap, uv).r with uv in units of 1/One; a null sampler reads 0
SampleTrail(tex, u, v) ==
  IF tex = NullTexture THEN 0 ELSE texture2D(tex, u, One, v, One)

(***************************************************************************)
(* agentSim.frag                                                           *)
(***************************************************************************)
rotate(v, angle) ==
  LET c == cos(angle)
      s == sin(angle)
  IN  <<Mul(v[1], c) - Mul(v[2], s), Mul(v[1], s) + Mul(v[2], c)>>

\* the three sensor readings L, F, R of a particle
Sense(particle, trailMap, u) ==
  LET angle        == particle.z
      sensorOffset == <<Mul(cos(angle), u.uSensorDistance),
                        Mul(sin(angle), u.uSensorDistance)>>
      lo           == rotate(sensorOffset, 0 - u.uSensorAngle)
      ro           == rotate(sensorOffset, u.uSensorAngle)
      leftSensor   == <<particle.x + lo[1], particle.y + lo[2]>>
      frontSensor  == <<particle.x + sensorOffset[1], particle.y + sensorOffset[2]>>
      rightSensor  == <<particle.x + ro[1], particle.y + ro[2]>>
  IN  [L |-> SampleTrail(trailMap, fract(leftSensor[1]), fract(leftSensor[2])),
       F |-> SampleTrail(trailMap, fract(frontSensor[1]), fract(frontSensor[2])),
       R |-> SampleTrail(trailMap, fract(rightSensor[1]), fract(rightSensor[2]))]

\* the branch of the ROTATE decision that the readings select
RotateBranch(L, F, R) ==
  IF F > L /\ F > R THEN "keep"
  ELSE IF F < L /\ F < R THEN "random"
  ELSE IF L > R THEN "left"
  ELSE IF R > L THEN "right"
  ELSE "equal"

\* (rand - 0.5) * uRotationAngle * 2.0
RandomTurn(rand, rotationAngle) ==
  ((rand - One \div 2) * rotationAngle * 2 + One \div 2) \div One

Rotate(angle, L, F, R, rand, rotationAngle) ==
  LET b == RotateBranch(L, F, R)
  IN  CASE b = "random" -> angle + RandomTurn(rand, rotationAngle)
        [] b = "left"   -> angle - rotationAngle
        [] b = "right"  -> angle + rotationAngle
        [] OTHER        -> angle

\* MOVE: newPos = fract(pos + direction * uStepSize)
Move(x, y, newAngle, stepSize) ==
  <<fract(x + Mul(cos(newAngle), stepSize)),
    fract(y + Mul(sin(newAngle), stepSize))>>

\* main(): one particle, one frame
agentSimMain(particle, trailMap, u, rand) ==
  Bind(Sense(particle, trailMap, u), LAMBDA s :
    Bind(Rotate(particle.z, s.L, s.F, s.R, rand, u.uRotationAngle), LAMBDA newAngle :
      Bind(Move(particle.x, particle.y, newAngle, u.uStepSize), LAMBDA newPos :
        [x |-> newPos[1], y |-> newPos[2], z |-> newAngle, a |-> particle.a])))

(***************************************************************************)
(* agentSim.frag, ROTATE / MOVE / OUTPUT, on binary32 values: one fragment *)
(* with the three sensor readings and the value of random() given.         *)
(***************************************************************************)
F32Half == F32(1, 8388608, -24)
F32One  == F32(1, 8388608, -23)
F32Two  == F32(1, 8388608, -22)

\* const float PI = 3.14159265359
F32PI == F32(1, 13176795, -22)

\* <<angle, cos(angle), sin(angle)>>, correctly rounded, for the angles that
\* the sampled headings and turns produce
TrigTable ==
  <<
    <<F32(1, 0, 0), F32(1, 8388608, -23), F32(1, 0, 0)>>,
    <<F32(-1, 13176795, -24), F32(1, 11863283, -24), F32(-1, 11863283, -24)>>,
    <<F32(1, 13176795, -24), F32(1, 11863283, -24), F32(1, 11863283, -24)>>,
    <<F32(1, 13176795, -25), F32(1, 15500126, -24), F32(1, 12840726, -25)>>,
    <<F32(1, 13176795, -23), F32(-1, 12303662, -48), F32(1, 8388608, -23)>>,
    <<F32(1, 9882596, -22), F32(-1, 11863283, -24), F32(1, 11863283, -24)>>,
    <<F32(1, 16470994, -23), F32(-1, 12840728, -25), F32(1, 15500126, -24)>>,
    <<F32(1, 13176795, -22), F32(-1, 8388608, -23), F32(-1, 12303662, -47)>>,
    <<F32(1, 16470994, -22), F32(-1, 11863281, -24), F32(-1, 11863285, -24)>>,
    <<F32(1, 14823894, -22), F32(-1, 15500126, -24), F32(-1, 12840725, -25)>>,
    <<F32(1, 9882596, -21), F32(1, 13426222, -50), F32(-1, 8388608, -23)>>,
    <<F32(1, 9059047, -21), F32(-1, 12840715, -25), F32(-1, 15500129, -24)>>,
    <<F32(1, 12228065, -26), F32(1, 16499473, -24), F32(1, 12160513, -26)>>,
    <<F32(-1, 10119779, -24), F32(1, 13816584, -24), F32(-1, 9517194, -24)>>,
    <<F32(1, 16233811, -24), F32(1, 9517194, -24), F32(1, 13816584, -24)>>,
    <<F32(1, 9645414, -24), F32(1, 14080118, -24), F32(1, 9122787, -24)>>
  >>

TrigRow(angle) == TrigTable[CHOOSE i \in DOMAIN TrigTable : TrigTable[i][1] = angle]

cos32(angle) == TrigRow(angle)[2]
sin32(angle) == TrigRow(angle)[3]

\* float angle = particle.z * 2.0 * PI
Angle32(z) == F32Mul(F32Mul(z, F32Two), F32PI)

\* faulty variant of Rotate32: the two turns exchanged
Rotate32Mirrored(angle, L, F, R, rand, uRotationAngle) ==
  IF F32Less(L, F) /\ F32Less(R, F) THEN angle
  ELSE IF F32Less(F, L) /\ F32Less(F, R)
    THEN F32Add(angle, F32Mul(F32Mul(F32Sub(rand, F32Half), uRotationAngle), F32Two))
  ELSE IF F32Less(R, L) THEN F32Add(angle, uRotationAngle)
  ELSE IF F32Less(L, R) THEN F32Sub(angle, uRotationAngle)
  ELSE angle

\* faulty variant of Rotate32: the last comparison is R >= L
Rotate32TieTurns(angle, L, F, R, rand, uRotationAngle) ==
  IF F32Less(L, F) /\ F32Less(R, F) THEN angle
  ELSE IF F32Less(F, L) /\ F32Less(F, R)
    THEN F32Add(angle, F32Mul(F32Mul(F32Sub(rand, F32Half), uRotationAngle), F32Two))
  ELSE IF F32Less(R, L) THEN F32Sub(angle, uRotationAngle)
  ELSE F32Add(angle, uRotationAngle)

\* faulty variant of Rotate32: rand is not centred on 0.5
Rotate32Uncentred(angle, L, F, R, rand, uRotationAngle) ==
  IF F32Less(L, F) /\ F32Less(R, F) THEN angle
  ELSE IF F32Less(F, L) /\ F32Less(F, R)
    THEN F32Add(angle, F32Mul(F32Mul(rand, uRotationAngle), F32Two))
  ELSE IF F32Less(R, L) THEN F32Sub(angle, uRotationAngle)
  ELSE IF F32Less(L, R) THEN F32Add(angle, uRotationAngle)
  ELSE angle

\* newAngle after the ROTATE decision
Rotate32(angle, L, F, R, rand, uRotationAngle) ==
  IF F32Less(L, F) /\ F32Less(R, F) THEN angle
  ELSE IF F32Less(F, L) /\ F32Less(F, R)
    THEN F32Add(angle, F32Mul(F32Mul(F32Sub(rand, F32Half), uRotationAngle), F32Two))
  ELSE IF F32Less(R, L) THEN F32Sub(angle, uRotationAngle)
  ELSE IF F32Less(L, R) THEN F32Add(angle, uRotationAngle)
  ELSE angle

\* newPos = fract(pos + direction * uStepSize), direction that of newAngle
Move32(x, y, newAngle, uStepSize) ==
  <<F32Fract(F32Add(x, F32Mul(cos32(newAngle), uStepSize))),
    F32Fract(F32Add(y, F32Mul(sin32(newAngle), uStepSize)))>>

\* the heading channel of gl_FragColor: newAngle / (2.0 * PI)
Heading32(newAngle) == F32Div(newAngle, F32Mul(F32Two, F32PI))

\* faulty variant of main32: MOVE along the old heading
main32OldHeading(particle, L, F, R, rand, u) ==
  Bind(Angle32(particle.z), LAMBDA angle :
    Bind(Rotate32(angle, L, F, R, rand, u.uRotationAngle), LAMBDA newAngle :
      Bind(Move32(particle.x, particle.y, angle, u.uStepSize), LAMBDA newPos :
        [angle |-> angle, newAngle |-> newAngle,
         gl_FragColor |-> [x |-> newPos[1], y |-> newPos[2],
                           z |-> Heading32(newAngle), a |-> particle.a]])))

\* main() from ROTATE on: the locals angle and newAngle, and gl_FragColor
main32(particle, L, F, R, rand, u) ==
  Bind(Angle32(particle.z), LAMBDA angle :
    Bind(Rotate32(angle, L, F, R, rand, u.uRotationAngle), LAMBDA newAngle :
      Bind(Move32(particle.x, particle.y, newAngle, u.uStepSize), LAMBDA newPos :
        [angle |-> angle, newAngle |-> newAngle,
         gl_FragColor |-> [x |-> newPos[1], y |-> newPos[2],
                           z |-> Heading32(newAngle), a |-> particle.a]])))

(***************************************************************************)
(* random(vUv + vec2(uTime)): a hash of st.  Its values are not computed;  *)
(* the model holds the table of the values read so far (hash), a function  *)
(* of st, and draws an entry the first time a render reads it.             *)
(***************************************************************************)
\* the centre of fragment i (0-based) in a row of n fragments, in units 1/One
FragCoord(i, n) == ((2 * i + 1) * One) \div (2 * n)

\* st = vUv + vec2(uTime)
RandomKey(col, row, size, time) ==
  <<FragCoord(col, size) + time, FragCoord(row, size) + time>>

random(table, st) == IF st \in DOMAIN table THEN table[st] ELSE 0

\* the particle a fragment of the agentSim pass reads: texture2D(uAgentState, vUv)
ReadParticle(agentState, col, row, size) ==
  texture2D(agentState, 2 * col + 1, 2 * size, 2 * row + 1, 2 * size)

\* renderer.render(agentSimScene): agentSim.frag on every fragment of a
\* size x size render target
RenderAgentSim(agentState, trailMap, u, time, size, table) ==
  [w |-> size, h |-> size,
   data |-> [i \in 1..(size * size) |->
     LET col == (i - 1) % size
         row == (i - 1) \div size
     IN  Bind(ReadParticle(agentState, col, row, size), LAMBDA particle :
           agentSimMain(particle, trailMap, u,
                        random(table, RandomKey(col, row, size, time))))]]

\* the values of st at which that render calls random()
RandomKeysRead(agentState, trailMap, u, time, size) ==
  {RandomKey((i - 1) % size, (i - 1) \div size, size, time) :
     i \in {j \in 1..(size * size) :
              Bind(ReadParticle(agentState, (j - 1) % size, (j - 1) \div size, size),
                   LAMBDA particle :
                     Bind(Sense(particle, trailMap, u), LAMBDA s :
                       RotateBranch(s.L, s.F, s.R) = "random"))}}

(***************************************************************************)
(* copy.frag, trailMap.vert / trailMap.frag, blur.frag                     *)
(***************************************************************************)
\* renderer.render(copyScene) into a w x h target
RenderCopy(uTexture, w, h) ==
  [w |-> w, h |-> h,
   data |-> [i \in 1..(w * h) |->
     texture2D(uTexture, 2 * ((i - 1) % w) + 1, 2 * w,
                         2 * ((i - 1) \div w) + 1, 2 * h)]]

\* trailMap.vert: the position at which vertex aAgentIndex is drawn
trailMapVert(aAgentIndex, agentState, uNumAgents) ==
  Bind(CeilSqrt(uNumAgents), LAMBDA size :
    LET row  == aAgentIndex \div size
        col  == aAgentIndex % size
        particleData == texture2D(agentState, col, size, row, size)
    IN  <<particleData.x, particleData.y>>)

\* trailMap.vert: the index (0-based, row by row) of the texel of agentState
\* that vertex aAgentIndex reads
trailMapVertTexel(aAgentIndex, agentState, uNumAgents) ==
  Bind(CeilSqrt(uNumAgents), LAMBDA size :
    NearestIndex(aAgentIndex \div size, size, agentState.h) * agentState.w
      + NearestIndex(aAgentIndex % size, size, agentState.w))

\* trailMap.frag on the fragment (px, py) of the point (gl_PointSize = 2.0)
\* drawn at pos in a w x h target: the intensity it adds
trailMapFrag(pos, px, py, w, h, uDepositAmount) ==
  LET dx == px * One + One \div 2 - pos[1] * w
      dy == py * One + One \div 2 - pos[2] * h
      d  == Mul(dx, dx) + Mul(dy, dy)
  IN  IF dx < 0 - One \/ dx > One \/ dy < 0 - One \/ dy > One THEN 0
      ELSE IF d > One THEN 0
      ELSE Mul(One - d, uDepositAmount)

RECURSIVE DepositSum(_, _, _, _, _, _, _)
\* what the vertices 0 .. n-1 add to the fragment (px, py)
DepositSum(n, agentState, u, px, py, w, h) ==
  IF n = 0 THEN 0
  ELSE DepositSum(n - 1, agentState, u, px, py, w, h)
       + trailMapFrag(trailMapVert(n - 1, agentState, u.uNumAgents),
                      px, py, w, h, u.uDepositAmount)

\* faulty variant of RenderDeposit: the target clamps to [0.0, 1.0], as a
\* render target that is not of FloatType does
RenderDepositClamped(target, agentState, u, count) ==
  [target EXCEPT !.data = [i \in 1..(target.w * target.h) |->
     clamp(target.data[i]
           + DepositSum(count, agentState, u, (i - 1) % target.w,
                        (i - 1) \div target.w, target.w, target.h), 0, One)]]

\* renderer.render(trailRenderScene) with autoClear = false and
\* AdditiveBlending: count points drawn on top of the target's contents
RenderDeposit(target, agentState, u, count) ==
  [target EXCEPT !.data = [i \in 1..(target.w * target.h) |->
     target.data[i]
     + DepositSum(count, agentState, u, (i - 1) % target.w,
                  (i - 1) \div target.w, target.w, target.h)]]

\* pow(uDecayFactor, 0.016)
PowNominal(decay) ==
  CASE decay = One -> One
    [] decay = 250 -> 978
    [] decay = 200 -> 975
    [] OTHER       -> 0

RECURSIVE PowInt(_, _)
\* decay ^ n in units of 1/One, n a whole number of seconds (the quotient
\* for n < 0 computed in two parts so that nothing leaves 32 bits)
PowInt(decay, n) ==
  IF n = 0 THEN One
  ELSE IF n > 0 THEN Mul(PowInt(decay, n - 1), decay)
  ELSE Bind(PowInt(decay, n + 1), LAMBDA p :
         (p \div decay) * One + ((p % decay) * One) \div decay)

NominalDt == 16

\* sqrt of a fixed-point number in [0, 1]
Sqrt(x) == CHOOSE r \in 0..One : r * r <= x * One /\ (r + 1) * (r + 1) > x * One

\* decay ^ (n / 2) in units of 1/One
PowHalves(decay, n) ==
  IF n % 2 = 0 THEN PowInt(decay, n \div 2)
  ELSE Mul(PowInt(decay, n \div 2), Sqrt(decay))

\* faulty variant of pow: retention linear in the delta time
powLinear(x, y, table) == Max2(0, One - Mul(One - x, y))

\* faulty variant of pow: no decay
powNoDecay(x, y, table) == One

\* pow(x, y) for x = uDecayFactor in [0, 1] and y = uDeltaTime the nominal
\* 0.016 s or a multiple of half a second.  GLSL leaves the result undefined
\* for x = 0 and y <= 0: table holds what the build yields there.
pow(x, y, table) ==
  IF x = 0 /\ y <= 0 THEN (IF y \in DOMAIN table THEN table[y] ELSE 0)
  ELSE IF y = NominalDt THEN PowNominal(x)
  ELSE PowHalves(x, (2 * y) \div One)

\* faulty variant of blurMain: the blur is added to the centre texel
blurMainBlurAdded(uTrailMap, px, py, w, h, uResolution, uDecayFactor, uDeltaTime, uDiffuseWeight, table) ==
  LET Tap(ox, oy) ==
        texture2D(uTrailMap,
                  (2 * px + 1) * uResolution[1] + 2 * w * ox, 2 * w * uResolution[1],
                  (2 * py + 1) * uResolution[2] + 2 * h * oy, 2 * h * uResolution[2])
      sum == Tap(0 - 1, 1) + Tap(0, 1) + Tap(1, 1)
             + Tap(0 - 1, 0) + Tap(0, 0) + Tap(1, 0)
             + Tap(0 - 1, 0 - 1) + Tap(0, 0 - 1) + Tap(1, 0 - 1)
      blur == (sum + 4) \div 9
      original == Tap(0, 0)
  IN  Bind(clamp(Mul(uDiffuseWeight, uDeltaTime), 0, One), LAMBDA diffuseWeight :
        Mul(original + Mul(blur, diffuseWeight),
            pow(uDecayFactor, uDeltaTime, table)))

\* blur.frag on the fragment (px, py) of a w x h target
blurMain(uTrailMap, px, py, w, h, uResolution, uDecayFactor, uDeltaTime, uDiffuseWeight, table) ==
  LET Tap(ox, oy) ==
        texture2D(uTrailMap,
                  (2 * px + 1) * uResolution[1] + 2 * w * ox, 2 * w * uResolution[1],
                  (2 * py + 1) * uResolution[2] + 2 * h * oy, 2 * h * uResolution[2])
      sum == Tap(0 - 1, 1) + Tap(0, 1) + Tap(1, 1)
             + Tap(0 - 1, 0) + Tap(0, 0) + Tap(1, 0)
             + Tap(0 - 1, 0 - 1) + Tap(0, 0 - 1) + Tap(1, 0 - 1)
      blur == (sum + 4) \div 9
      original == Tap(0, 0)
  IN  Bind(clamp(Mul(uDiffuseWeight, uDeltaTime), 0, One), LAMBDA diffuseWeight :
        Mul(Mul(original, One - diffuseWeight) + Mul(blur, diffuseWeight),
            pow(uDecayFactor, uDeltaTime, table)))

\* renderer.render(blurScene) into a w x h target
RenderBlur(m, w, h, table) ==
  [w |-> w, h |-> h,
   data |-> [i \in 1..(w * h) |->
     blurMain(m.uTrailMap, (i - 1) % w, (i - 1) \div w, w, h, m.uResolution,
              m.uDecayFactor, m.uDeltaTime, m.uDiffuseWeight, table)]]

(***************************************************************************)
(* Physarum (index.ts).  A Physarum object is the record sim:              *)
(*   the fields of the class (render targets and sampler uniforms hold the *)
(*   id of a texture, NullId for null);                                    *)
(*   tex: the contents of the textures that are referenced;                *)
(*   nextId: the number of textures created so far, plus one;              *)
(*   depositCount: the number of vertices of depositGeometry;              *)
(*   disposed: the ids on which dispose() has been called;                 *)
(*   passes: the render passes and bindings of the last call, in order.    *)
(***************************************************************************)
NullId == 0

Pass(name, target, reads) == [pass |-> name, target |-> target, reads |-> reads]

TexOf(s, id) == IF id = NullId THEN NullTexture ELSE s.tex[id]

\* renderer.clear() on a render target
Cleared(t) == [t EXCEPT !.data = [i \in 1..(t.w * t.h) |-> 0]]

createAgentRenderTarget(numAgents) ==
  LET size == CeilSqrt(numAgents)
  IN  [w |-> size, h |-> size, data |-> [i \in 1..(size * size) |-> ZeroTexel]]

createTrailRenderTarget(width, height) ==
  [w |-> width, h |-> height, data |-> [i \in 1..(width * height) |-> 0]]

radius == 100

\* draws[i + 1] holds the three results of Math.random() for agent i
initializeAgents(numAgents, draws) ==
  LET textureSize == CeilSqrt(numAgents)
  IN  [w |-> textureSize, h |-> textureSize,
       data |-> [j \in 1..(textureSize * textureSize) |->
         IF j > numAgents THEN ZeroTexel
         ELSE LET angle == Mul(draws[j][1], TwoPi)
              IN  Bind(Mul(radius, Sqrt(draws[j][2])), LAMBDA r :
                    [x |-> One \div 2 + Mul(r, cos(angle)),
                     y |-> One \div 2 + Mul(r, sin(angle)),
                     z |-> Mul(draws[j][3], TwoPi),
                     a |-> One])]]

\* the plane that fills the view: [planeWidth, planeHeight]
PlaneGeometry(width, height) ==
  LET aspect == (width * One) \div height
  IN  IF aspect > One THEN <<aspect * 2, 2 * One>>
      ELSE <<2 * One, (2 * One * height) \div width>>

DefaultUniforms(width, height, numAgents) ==
  [uResolution     |-> <<width, height>>,
   uNumAgents      |-> numAgents,
   uSensorAngle    |-> 45,
   uSensorDistance |-> 9 * One,
   uRotationAngle  |-> 90,
   uStepSize       |-> 20 * One,
   uDepositAmount  |-> 5 * One,
   uDecayFactor    |-> 200,
   uDiffuseWeight  |-> One,
   uDebugMode      |-> 0]

\* constructor(scene, renderer), the canvas being width x height
constructor(width, height, numAgents, draws) ==
  Bind(initializeAgents(numAgents, draws), LAMBDA initialAgentsTexture :
  LET uniforms == DefaultUniforms(width, height, numAgents)
      targetA == createAgentRenderTarget(numAgents)
      seeded  == RenderAgentSim(initialAgentsTexture, NullTexture, uniforms, 0,
                                targetA.w, <<>>)
  IN  [uniforms            |-> uniforms,
       agentsRenderTargetA |-> 1,
       agentsRenderTargetB |-> 2,
       trailRenderTargetA  |-> 4,
       trailRenderTargetB  |-> 5,
       agentSimMaterial    |-> [uAgentState |-> 3, uTrailMap |-> NullId,
                                uTime |-> 0, uDeltaTime |-> NominalDt],
       trailRenderMaterial |-> [uAgentState |-> NullId],
       copyMaterial        |-> [uTexture |-> NullId],
       blurMaterial        |-> [uTrailMap |-> NullId,
                                uResolution |-> <<width, height>>,
                                uDecayFactor |-> uniforms.uDecayFactor,
                                uDiffuseWeight |-> uniforms.uDiffuseWeight,
                                uDeltaTime |-> NominalDt],
       material            |-> [uAgentState |-> 1, uTrailMap |-> 4],
       geometry            |-> PlaneGeometry(width, height),
       depositCount        |-> numAgents,
       lastTime            |-> 0,
       tex                 |-> (1 :> seeded
                                @@ 2 :> createAgentRenderTarget(numAgents)
                                @@ 3 :> initialAgentsTexture
                                @@ 4 :> Cleared(createTrailRenderTarget(width, height))
                                @@ 5 :> Cleared(createTrailRenderTarget(width, height))),
       nextId              |-> 6,
       disposed            |-> {},
       disposedSelf        |-> FALSE,
       passes              |-> <<Pass("AgentSeed", 1, {3})>>])

\* new Physarum(scene, renderer) with uNumAgents = numAgents: the object, or
\* the RangeError of new Float32Array(numAgents) for a negative length
newPhysarum(width, height, numAgents, draws) ==
  IF numAgents < 0 THEN [threw |-> TRUE]
  ELSE [threw |-> FALSE, object |-> constructor(width, height, numAgents, draws)]

\* the textures some field still refers to keep their contents
Referenced(s) ==
  {s.agentsRenderTargetA, s.agentsRenderTargetB, s.trailRenderTargetA,
   s.trailRenderTargetB, s.agentSimMaterial.uAgentState}

Collect(s) == [s EXCEPT !.tex = [i \in (DOMAIN s.tex) \cap Referenced(s) |-> s.tex[i]]]

\* faulty variant of SwapAgents: a swap without the temporary
SwapAgentsNoTemp(s) ==
  [s EXCEPT !.agentsRenderTargetA = s.agentsRenderTargetB,
            !.agentsRenderTargetB = s.agentsRenderTargetB]

\* [agentsRenderTargetA, agentsRenderTargetB] = [agentsRenderTargetB, agentsRenderTargetA]
SwapAgents(s) ==
  [s EXCEPT !.agentsRenderTargetA = s.agentsRenderTargetB,
            !.agentsRenderTargetB = s.agentsRenderTargetA]

\* faulty variant of agentSimulationStep: the pass renders into the target
\* it reads
agentSimulationStepInPlace(s, time, dt, table) ==
  LET m == [s.agentSimMaterial EXCEPT !.uAgentState = s.agentsRenderTargetA,
                                      !.uTrailMap = s.trailRenderTargetA,
                                      !.uTime = time,
                                      !.uDeltaTime = dt]
      target == s.agentsRenderTargetA
      out == RenderAgentSim(s.tex[m.uAgentState], TexOf(s, m.uTrailMap),
                            s.uniforms, m.uTime, s.tex[target].w, table)
  IN  Bind([s EXCEPT !.agentSimMaterial = m,
                     !.tex = [s.tex EXCEPT ![target] = out],
                     !.passes = Append(s.passes,
                                  Pass("AgentUpdate", target,
                                       {m.uAgentState, m.uTrailMap}))],
           LAMBDA r : Collect(r))

agentSimulationStep(s, time, dt, table) ==
  LET m == [s.agentSimMaterial EXCEPT !.uAgentState = s.agentsRenderTargetA,
                                      !.uTrailMap = s.trailRenderTargetA,
                                      !.uTime = time,
                                      !.uDeltaTime = dt]
      target == s.agentsRenderTargetB
      out == RenderAgentSim(s.tex[m.uAgentState], TexOf(s, m.uTrailMap),
                            s.uniforms, m.uTime, s.tex[target].w, table)
  IN  Bind([s EXCEPT !.agentSimMaterial = m,
                     !.tex = [s.tex EXCEPT ![target] = out],
                     !.passes = Append(s.passes,
                                  Pass("AgentUpdate", target,
                                       {m.uAgentState, m.uTrailMap}))],
           LAMBDA r : Bind(SwapAgents(r), LAMBDA swapped : Collect(swapped)))

\* faulty variant of trailMapStep: the blur material keeps the decay factor
\* and the diffuse weight it was created with
trailMapStepStaleBlur(s, deltaTime, table) ==
  LET A == s.trailRenderTargetA
      B == s.trailRenderTargetB
      agents == s.agentsRenderTargetA
      blurM == [s.blurMaterial EXCEPT !.uTrailMap = B, !.uDeltaTime = deltaTime]
  IN
  Bind(RenderCopy(s.tex[A], s.tex[B].w, s.tex[B].h), LAMBDA copied :
  Bind(RenderDeposit(copied, s.tex[agents], s.uniforms, s.depositCount),
       LAMBDA deposited :
  Bind([uTrailMap |-> deposited, uResolution |-> blurM.uResolution,
        uDecayFactor |-> blurM.uDecayFactor,
        uDiffuseWeight |-> blurM.uDiffuseWeight,
        uDeltaTime |-> blurM.uDeltaTime], LAMBDA blurIn :
  Bind(RenderBlur(blurIn, s.tex[A].w, s.tex[A].h, table), LAMBDA out :
      [s EXCEPT !.copyMaterial.uTexture = A,
                !.trailRenderMaterial.uAgentState = agents,
                !.blurMaterial = blurM,
                !.tex = [s.tex EXCEPT ![B] = deposited, ![A] = out],
                !.passes = s.passes \o <<Pass("Copy", B, {A}),
                                         Pass("TrailDeposit", B, {agents}),
                                         Pass("DiffuseDecay", A, {B})>>]))))

\* faulty variant of trailMapStep: the deposit pass reads the agent buffer
\* of the frame before
trailMapStepOldAgents(s, deltaTime, table) ==
  LET A == s.trailRenderTargetA
      B == s.trailRenderTargetB
      agents == s.agentsRenderTargetB
      blurM == [s.blurMaterial EXCEPT !.uTrailMap = B,
                                      !.uDecayFactor = s.uniforms.uDecayFactor,
                                      !.uDiffuseWeight = s.uniforms.uDiffuseWeight,
                                      !.uDeltaTime = deltaTime]
  IN
  Bind(RenderCopy(s.tex[A], s.tex[B].w, s.tex[B].h), LAMBDA copied :
  Bind(RenderDeposit(copied, s.tex[agents], s.uniforms, s.depositCount),
       LAMBDA deposited :
  Bind([uTrailMap |-> deposited, uResolution |-> blurM.uResolution,
        uDecayFactor |-> blurM.uDecayFactor,
        uDiffuseWeight |-> blurM.uDiffuseWeight,
        uDeltaTime |-> blurM.uDeltaTime], LAMBDA blurIn :
  Bind(RenderBlur(blurIn, s.tex[A].w, s.tex[A].h, table), LAMBDA out :
      [s EXCEPT !.copyMaterial.uTexture = A,
                !.trailRenderMaterial.uAgentState = agents,
                !.blurMaterial = blurM,
                !.tex = [s.tex EXCEPT ![B] = deposited, ![A] = out],
                !.passes = s.passes \o <<Pass("Copy", B, {A}),
                                         Pass("TrailDeposit", B, {agents}),
                                         Pass("DiffuseDecay", A, {B})>>]))))

trailMapStep(s, deltaTime, table) ==
  LET A == s.trailRenderTargetA
      B == s.trailRenderTargetB
      agents == s.agentsRenderTargetA
      blurM == [s.blurMaterial EXCEPT !.uTrailMap = B,
                                      !.uDecayFactor = s.uniforms.uDecayFactor,
                                      !.uDiffuseWeight = s.uniforms.uDiffuseWeight,
                                      !.uDeltaTime = deltaTime]
  IN
  \* Step 1: copy A to B
  Bind(RenderCopy(s.tex[A], s.tex[B].w, s.tex[B].h), LAMBDA copied :
  \* Step 2: deposit particles on top of B
  Bind(RenderDeposit(copied, s.tex[agents], s.uniforms, s.depositCount),
       LAMBDA deposited :
  \* Step 3: blur + decay B, write to A
  Bind([uTrailMap |-> deposited, uResolution |-> blurM.uResolution,
        uDecayFactor |-> blurM.uDecayFactor,
        uDiffuseWeight |-> blurM.uDiffuseWeight,
        uDeltaTime |-> blurM.uDeltaTime], LAMBDA blurIn :
  Bind(RenderBlur(blurIn, s.tex[A].w, s.tex[A].h, table), LAMBDA out :
      [s EXCEPT !.copyMaterial.uTexture = A,
                !.trailRenderMaterial.uAgentState = agents,
                !.blurMaterial = blurM,
                !.tex = [s.tex EXCEPT ![B] = deposited, ![A] = out],
                !.passes = s.passes \o <<Pass("Copy", B, {A}),
                                         Pass("TrailDeposit", B, {agents}),
                                         Pass("DiffuseDecay", A, {B})>>]))))

\* faulty variant of DeltaTime: no nominal first step
DeltaTimeElapsed(lastTime, time) == time - lastTime

\* const deltaTime = this.lastTime === 0 ? 0.016 : time - this.lastTime
DeltaTime(lastTime, time) == IF lastTime = 0 THEN NominalDt ELSE time - lastTime

\* faulty variant of update: the trail passes before the agent pass
updateTrailFirst(s, time, table) ==
  LET deltaTime == DeltaTime(s.lastTime, time)
  IN
  Bind([s EXCEPT !.lastTime = time, !.passes = <<>>], LAMBDA s0 :
  Bind(trailMapStep(s0, deltaTime, table.pow), LAMBDA s1 :
  Bind(agentSimulationStep(s1, time, deltaTime, table.random), LAMBDA s2 :
      [s2 EXCEPT !.material.uAgentState = s2.agentsRenderTargetA,
                 !.material.uTrailMap = s2.trailRenderTargetA,
                 !.passes = Append(s2.passes,
                              Pass("Display", NullId,
                                   {s2.agentsRenderTargetA, s2.trailRenderTargetA}))])))

\* faulty variant of update: the display material keeps its handles
updateNoDisplayBind(s, time, table) ==
  LET deltaTime == DeltaTime(s.lastTime, time)
  IN
  Bind([s EXCEPT !.lastTime = time, !.passes = <<>>], LAMBDA s0 :
  Bind(agentSimulationStep(s0, time, deltaTime, table.random), LAMBDA s1 :
  Bind(trailMapStep(s1, deltaTime, table.pow), LAMBDA s2 :
      [s2 EXCEPT !.passes = Append(s2.passes,
                              Pass("Display", NullId,
                                   {s2.material.uAgentState, s2.material.uTrailMap}))])))

\* table.random and table.pow hold the values of random() and of the
\* undefined results of pow() that the passes read
update(s, time, table) ==
  LET deltaTime == DeltaTime(s.lastTime, time)
  IN
  Bind([s EXCEPT !.lastTime = time, !.passes = <<>>], LAMBDA s0 :
  Bind(agentSimulationStep(s0, time, deltaTime, table.random), LAMBDA s1 :
  Bind(trailMapStep(s1, deltaTime, table.pow), LAMBDA s2 :
      [s2 EXCEPT !.material.uAgentState = s2.agentsRenderTargetA,
                 !.material.uTrailMap = s2.trailRenderTargetA,
                 !.passes = Append(s2.passes,
                              Pass("Display", NullId,
                                   {s2.agentsRenderTargetA, s2.trailRenderTargetA}))])))

resetSimulation(s, draws, table) ==
  Bind(initializeAgents(s.uniforms.uNumAgents, draws), LAMBDA newAgentsTexture :
  LET oldTexture == s.agentSimMaterial.uAgentState
      newId == s.nextId
      A == s.agentsRenderTargetA
      seeded == RenderAgentSim(newAgentsTexture, TexOf(s, s.agentSimMaterial.uTrailMap),
                               s.uniforms, s.agentSimMaterial.uTime, s.tex[A].w, table)
  IN  Bind([s EXCEPT
        !.disposed = IF oldTexture = NullId THEN @ ELSE @ \cup {oldTexture},
        !.agentSimMaterial.uAgentState = newId,
        !.nextId = newId + 1,
        !.tex = (newId :> newAgentsTexture)
                @@ [s.tex EXCEPT ![A] = seeded,
                                 ![s.trailRenderTargetA] = Cleared(@),
                                 ![s.trailRenderTargetB] = Cleared(@)],
        !.passes = <<Pass("AgentSeed", A, {newId, s.agentSimMaterial.uTrailMap})>>,
        !.lastTime = 0], LAMBDA r : Collect(r)))

\* faulty variant of resize: the agent render targets are created anew
resizeNewAgentTargets(s, width, height) ==
  [s EXCEPT !.uniforms.uResolution = <<width, height>>,
            !.blurMaterial.uResolution = <<width, height>>,
            !.geometry = PlaneGeometry(width, height),
            !.tex = [s.tex EXCEPT
                       ![s.agentsRenderTargetA] = createAgentRenderTarget(s.depositCount),
                       ![s.agentsRenderTargetB] = createAgentRenderTarget(s.depositCount)],
            !.passes = <<>>]

resize(s, width, height) ==
  [s EXCEPT !.uniforms.uResolution = <<width, height>>,
            !.blurMaterial.uResolution = <<width, height>>,
            !.geometry = PlaneGeometry(width, height),
            !.passes = <<>>]

dispose(s) ==
  [s EXCEPT !.disposed = @ \cup {s.agentsRenderTargetA, s.agentsRenderTargetB,
                                 s.trailRenderTargetA, s.trailRenderTargetB},
            !.disposedSelf = TRUE,
            !.passes = <<>>]

\* a slider of the control panel: uniform.value = value
setUniform(s, property, value) ==
  [s EXCEPT !.uniforms[property] = value, !.passes = <<>>]

(***************************************************************************)
(* App (main.ts): the clock that animate() hands to update().  Date.now()  *)
(* is the field now, in milliseconds; elapsed time is in units of 1/One s. *)
(* panelPaused is ControlPanel.isPaused, which togglePause() flips.        *)
(***************************************************************************)
\* the fields of a new App, Date.now() being 0 at construction
App ==
  [now |-> 0, startTime |-> 0, timeSpeed |-> 1, isPaused |-> FALSE,
   pausedTime |-> 0, lastPauseTime |-> 0, panelPaused |-> FALSE]

getElapsedTime(a) ==
  IF a.isPaused THEN a.pausedTime
  ELSE LET realTime == a.now - a.startTime
       IN  realTime * a.timeSpeed

handleTimeSpeed(a, speed) == [a EXCEPT !.timeSpeed = speed]

\* isPaused is set before getElapsedTime() is called
handlePause(a, paused) ==
  IF paused
    THEN LET a1 == [a EXCEPT !.isPaused = TRUE]
         IN  [a1 EXCEPT !.pausedTime = getElapsedTime(a1), !.lastPauseTime = a.now]
    ELSE LET pauseDuration == a.now - a.lastPauseTime
         IN  [a EXCEPT !.isPaused = FALSE, !.startTime = @ + pauseDuration]

\* ControlPanel.togglePause
togglePause(a) ==
  handlePause([a EXCEPT !.panelPaused = ~a.panelPaused], ~a.panelPaused)

handleTimeReset(a) ==
  [a EXCEPT !.startTime = a.now, !.pausedTime = 0, !.isPaused = FALSE]

(***************************************************************************)
(* Bounds of the model                                                     *)
(***************************************************************************)
\* the largest value of the "Number of Agents" slider (1024 in the program)
MaxSliderAgents == 2
\* uNumAgents of the constructor (250000 in the program): above the slider
InitNumAgents == MaxSliderAgents + 1
\* calls made on one Physarum object
MaxOps == 3

\* seconds of Date.now() that pass while the App is followed
MaxNow == 2
\* animation frames of the simulation with the agent that stays in place
MaxFrames == 6
\* Diffuse-Decay passes of one second applied to one field
MaxCoarse == 2

\* the values of time passed to update(): whole seconds
Times == {0, One, 2 * One}

\* the sequences of Math.random() results that are tried
Seeds == {1, 2}

\* sizes of the canvas
CanvasSizes == {<<2, 2>>, <<3, 2>>}

\* results of Math.random(): (position angle, squared radius, heading), each
\* in [0, 1)
DrawTable ==
  << <<0, 0, 0>>, <<250, 810, 125>>, <<500, 250, 500>>, <<875, 999, 750>> >>

Draws(seed, numAgents) ==
  [j \in 1..numAgents |-> DrawTable[((seed + j) % Len(DrawTable)) + 1]]

\* values of random(): in [0, 1)
RandValues == {0, One \div 2, One - 1}

\* what a build may yield for pow(0, y), y <= 0: a value below zero (or no
\* number at all) and a value above zero
UndefinedValues == {0 - One, One}

\* the sliders of Physarum.controls, each with the values that are tried
SliderChoices ==
  ({"uNumAgents"} \X (1..MaxSliderAgents))
  \cup ({"uSensorAngle"} \X {0})
  \cup ({"uStepSize"} \X {One \div 10})
  \cup ({"uDecayFactor"} \X {0, One})
  \cup ({"uDebugMode"} \X {1})

VARIABLES
  sim,      \* the Physarum object
  canvas,   \* clientWidth, clientHeight of the canvas element
  hash,     \* the values of random() that have been read: st -> value
  lastOp,   \* the call that produced this state
  ops,      \* the number of calls so far
  frag,     \* one fragment of the agentSim pass on binary32 values
  app,      \* the clock of App (main.ts) and the pause flag of the panel
  gpu,      \* the undefined results of pow() that have been read: y -> value
  lab       \* one trail field under coarse and under fine Diffuse-Decay steps

vars == <<sim, canvas, hash, lastOp, ops, frag, app, gpu, lab>>

\* no fragment is being followed
NoFragment == [phase |-> "idle"]

\* no trail field is being followed
NoLab == [phase |-> "idle"]

\* new Physarum(scene, renderer) on a canvas of the given size
Constructed(size, seed) ==
  /\ canvas = size
  /\ sim = constructor(size[1], size[2], InitNumAgents, Draws(seed, InitNumAgents))
  /\ hash = <<>>
  /\ lastOp = "constructor"
  /\ ops = 0

Init ==
  /\ \E size \in CanvasSizes, seed \in Seeds : Constructed(size, seed)
  /\ frag = NoFragment
  /\ app = App
  /\ gpu = <<>>
  /\ lab = NoLab

Callable == ~sim.disposedSelf /\ ops < MaxOps

\* faulty variant of NewEntries: every render draws its values afresh
NewEntriesRedrawn(keys) == [keys -> RandValues]

\* the entries of hash that a render adds
NewEntries(keys) == [keys \ DOMAIN hash -> RandValues]

\* the values of y at which update(time) evaluates pow(0, y), y <= 0
PowKeysRead(s, time) ==
  IF s.uniforms.uDecayFactor = 0 /\ DeltaTime(s.lastTime, time) <= 0
    THEN {DeltaTime(s.lastTime, time)}
    ELSE {}

\* the entries of gpu that an update adds
NewResults(keys) == [keys \ DOMAIN gpu -> UndefinedValues]

Update ==
  /\ Callable
  /\ \E time \in Times :
       \E new \in NewEntries(RandomKeysRead(sim.tex[sim.agentsRenderTargetA],
                                            sim.tex[sim.trailRenderTargetA],
                                            sim.uniforms, time,
                                            sim.tex[sim.agentsRenderTargetB].w)) :
         \E res \in NewResults(PowKeysRead(sim, time)) :
           /\ hash' = new @@ hash
           /\ gpu' = res @@ gpu
           /\ sim' = update(sim, time, [random |-> hash', pow |-> gpu'])
  /\ lastOp' = "update"
  /\ ops' = ops + 1
  /\ UNCHANGED <<canvas, frag, app, lab>>

ResetSimulation ==
  /\ Callable
  /\ \E seed \in Seeds :
       LET draws == Draws(seed, sim.uniforms.uNumAgents)
       IN  \E new \in NewEntries(RandomKeysRead(
                        initializeAgents(sim.uniforms.uNumAgents, draws),
                        TexOf(sim, sim.agentSimMaterial.uTrailMap), sim.uniforms,
                        sim.agentSimMaterial.uTime,
                        sim.tex[sim.agentsRenderTargetA].w)) :
             /\ hash' = new @@ hash
             /\ sim' = resetSimulation(sim, draws, hash')
  /\ lastOp' = "resetSimulation"
  /\ ops' = ops + 1
  /\ UNCHANGED <<canvas, frag, app, gpu, lab>>

Resize ==
  /\ Callable
  /\ \E size \in CanvasSizes :
       /\ canvas' = size
       /\ sim' = resize(sim, size[1], size[2])
  /\ lastOp' = "resize"
  /\ ops' = ops + 1
  /\ UNCHANGED <<hash, frag, app, gpu, lab>>

SetUniform ==
  /\ Callable
  /\ \E c \in SliderChoices : sim' = setUniform(sim, c[1], c[2])
  /\ lastOp' = "setUniform"
  /\ ops' = ops + 1
  /\ UNCHANGED <<canvas, hash, frag, app, gpu, lab>>

Dispose ==
  /\ Callable
  /\ sim' = dispose(sim)
  /\ lastOp' = "dispose"
  /\ ops' = ops + 1
  /\ UNCHANGED <<canvas, hash, frag, app, gpu, lab>>

Next == Update \/ ResetSimulation \/ Resize \/ SetUniform \/ Dispose

Spec == Init /\ [][Next]_vars

(***************************************************************************)
(* The animation loop of App with its time controls: Date.now() advances   *)
(* in whole seconds, animate() calls update(getElapsedTime()).             *)
(***************************************************************************)
\* the values of the "Speed" control that are tried (0 .. 3 in the program)
Speeds == {0, 1, 2}

AppInit ==
  /\ Constructed(<<2, 2>>, 1)
  /\ frag = NoFragment
  /\ app = App
  /\ gpu = <<>>
  /\ lab = NoLab

\* one second passes
Tick ==
  /\ app.now < MaxNow * One
  /\ app' = [app EXCEPT !.now = @ + One]
  /\ UNCHANGED <<sim, canvas, hash, lastOp, ops, frag, gpu, lab>>

\* animate(), as one of at most limit calls
AnimateWithin(limit) ==
  /\ ~sim.disposedSelf /\ ops < limit
  /\ LET elapsedTime == getElapsedTime(app)
     IN  \E new \in NewEntries(RandomKeysRead(sim.tex[sim.agentsRenderTargetA],
                                              sim.tex[sim.trailRenderTargetA],
                                              sim.uniforms, elapsedTime,
                                              sim.tex[sim.agentsRenderTargetB].w)) :
           \E res \in NewResults(PowKeysRead(sim, elapsedTime)) :
             /\ hash' = new @@ hash
             /\ gpu' = res @@ gpu
             /\ sim' = update(sim, elapsedTime, [random |-> hash', pow |-> gpu'])
  /\ lastOp' = "update"
  /\ ops' = ops + 1
  /\ UNCHANGED <<canvas, frag, app, lab>>

HandleTimeSpeed ==
  /\ Callable
  /\ \E speed \in Speeds \ {app.timeSpeed} : app' = handleTimeSpeed(app, speed)
  /\ lastOp' = "handleTimeSpeed"
  /\ ops' = ops + 1
  /\ UNCHANGED <<sim, canvas, hash, frag, gpu, lab>>

TogglePause ==
  /\ Callable
  /\ app' = togglePause(app)
  /\ lastOp' = "togglePause"
  /\ ops' = ops + 1
  /\ UNCHANGED <<sim, canvas, hash, frag, gpu, lab>>

HandleTimeReset ==
  /\ Callable
  /\ app' = handleTimeReset(app)
  /\ lastOp' = "handleTimeReset"
  /\ ops' = ops + 1
  /\ UNCHANGED <<sim, canvas, hash, frag, gpu, lab>>

Animate == AnimateWithin(MaxOps)

AppNext == Tick \/ Animate \/ HandleTimeSpeed \/ TogglePause \/ HandleTimeReset

SpecApp == AppInit /\ [][AppNext]_vars

(***************************************************************************)
(* A simulation of one agent that stays in place (uStepSize = 0), drawn    *)
(* frame after frame: the clock advances by one second between two frames, *)
(* the "Speed" control making that one or two seconds of elapsed time.     *)
(***************************************************************************)
\* values of uDecayFactor below 1.0 and the values of uDiffuseWeight tried
DecayChoices == {200, 250}
DiffuseChoices == {0, One}

DepositInit ==
  /\ canvas = <<2, 2>>
  /\ \E seed \in Seeds, decay \in DecayChoices, diffuse \in DiffuseChoices :
       sim = setUniform(setUniform(setUniform(
               constructor(2, 2, 1, Draws(seed, 1)),
               "uStepSize", 0), "uDecayFactor", decay), "uDiffuseWeight", diffuse)
  /\ hash = <<>>
  /\ lastOp = "setUniform"
  /\ ops = 0
  /\ frag = NoFragment
  /\ \E speed \in {1, 2} : app = handleTimeSpeed(App, speed)
  /\ gpu = <<>>
  /\ lab = NoLab

\* the time until the next animation frame passes
FrameTick ==
  /\ getElapsedTime(app) = sim.lastTime
  /\ ops < MaxFrames
  /\ app' = [app EXCEPT !.now = @ + One]
  /\ UNCHANGED <<sim, canvas, hash, lastOp, ops, frag, gpu, lab>>

\* the animation frame
AnimateFrame ==
  /\ getElapsedTime(app) # sim.lastTime
  /\ AnimateWithin(MaxFrames)

DepositNext == FrameTick \/ AnimateFrame

SpecDeposit == DepositInit /\ [][DepositNext]_vars

(***************************************************************************)
(* A second Physarum is constructed, with an agent count drawn from        *)
(* AgentCounts, while the first one keeps running.                         *)
(***************************************************************************)
\* values of uNumAgents handed to the constructor
AgentCounts == (0 - 2)..InitNumAgents

InitializeInit ==
  /\ \E size \in CanvasSizes, seed \in Seeds : Constructed(size, seed)
  /\ frag = NoFragment
  /\ app = App
  /\ gpu = <<>>
  /\ \E n \in AgentCounts : lab = [phase |-> "request", numAgents |-> n]

Initialize ==
  /\ lab.phase = "request"
  /\ \E seed \in Seeds :
       lab' = [phase |-> "initialized", numAgents |-> lab.numAgents,
               before |-> sim,
               result |-> newPhysarum(canvas[1], canvas[2], lab.numAgents,
                                      Draws(seed, Max2(lab.numAgents, 0)))]
  /\ UNCHANGED <<sim, canvas, hash, lastOp, ops, frag, app, gpu>>

\* the first simulation's next frame
RunningUpdate ==
  /\ ops < 1
  /\ Update

InitializeNext == Initialize \/ RunningUpdate

SpecInitialize == InitializeInit /\ [][InitializeNext]_vars

(***************************************************************************)
(* The Diffuse-Decay pass on its own: one trail field is taken through     *)
(* passes of one second (coarse) and, separately, through passes of half a *)
(* second (fine), with uDiffuseWeight = 0.                                 *)
(***************************************************************************)
\* trail fields of 2 x 2 texels
FieldSamples ==
  { <<5 * One, 5 * One, 5 * One, 5 * One>>, <<0, One, 5 * One, 37>>,
    <<One \div 2, 0, 3 * One + 1, 999>> }

\* values of uDecayFactor
DecaySamples == {0, 200, 250, One}

DecayInit ==
  /\ Constructed(<<2, 2>>, 1)
  /\ frag = NoFragment
  /\ app = App
  /\ gpu = <<>>
  /\ \E field \in FieldSamples, decay \in DecaySamples :
       lab = [phase |-> "decay", uDecayFactor |-> decay, field0 |-> field,
              coarse |-> [w |-> 2, h |-> 2, data |-> field],
              fine |-> [w |-> 2, h |-> 2, data |-> field],
              nCoarse |-> 0, nFine |-> 0]

\* renderer.render(blurScene) on field with the given delta time
DecayPass(field, deltaTime) ==
  RenderBlur([uTrailMap |-> field, uResolution |-> <<field.w, field.h>>,
              uDecayFactor |-> lab.uDecayFactor, uDiffuseWeight |-> 0,
              uDeltaTime |-> deltaTime], field.w, field.h, gpu)

CoarsePass ==
  /\ lab.nCoarse < MaxCoarse
  /\ lab' = [lab EXCEPT !.coarse = DecayPass(lab.coarse, One), !.nCoarse = @ + 1]
  /\ UNCHANGED <<sim, canvas, hash, lastOp, ops, frag, app, gpu>>

FinePass ==
  /\ lab.nFine < 2 * MaxCoarse
  /\ lab' = [lab EXCEPT !.fine = DecayPass(lab.fine, One \div 2), !.nFine = @ + 1]
  /\ UNCHANGED <<sim, canvas, hash, lastOp, ops, frag, app, gpu>>

DecayNext == CoarsePass \/ FinePass

SpecDecay == DecayInit /\ [][DecayNext]_vars

(***************************************************************************)
(* The Diffuse-Decay pass with uDecayFactor = 1.0, rendered MaxDiffuse      *)
(* times on a field of 3 x 2 texels, each time with a delta time drawn     *)
(* from DeltaTimes; before is the field that the last pass read.           *)
(***************************************************************************)
MaxDiffuse == 2

\* trail fields of 3 x 2 texels: three uniform ones, two that are not
DiffuseFields ==
  { <<1, 1, 1, 1, 1, 1>>, <<333, 333, 333, 333, 333, 333>>,
    <<5 * One, 5 * One, 5 * One, 5 * One, 5 * One, 5 * One>>,
    <<0, One, 5 * One, 37, 0, 2 * One>>, <<9 * One, 0, 0, 0, 0, 0>> }

\* values of uDiffuseWeight: 0.0, 0.01, 0.5, 1.0
DiffuseWeights == {0, One \div 100, One \div 2, One}

\* values of deltaTime: -1 s, the nominal 0.016 s, 0.5 s, 2 s
DeltaTimes == {0 - One, NominalDt, One \div 2, 2 * One}

DiffuseInit ==
  /\ Constructed(<<2, 2>>, 1)
  /\ frag = NoFragment
  /\ app = App
  /\ gpu = <<>>
  /\ \E data \in DiffuseFields, weight \in DiffuseWeights :
       lab = [phase |-> "diffuse", uDiffuseWeight |-> weight,
              field |-> [w |-> 3, h |-> 2, data |-> data],
              before |-> [w |-> 3, h |-> 2, data |-> data],
              uDeltaTime |-> 0, n |-> 0]

\* renderer.render(blurScene) with the given delta time
DiffusePass ==
  /\ lab.n < MaxDiffuse
  /\ \E deltaTime \in DeltaTimes :
       lab' = [lab EXCEPT
                 !.before = lab.field,
                 !.field = RenderBlur([uTrailMap |-> lab.field,
                                       uResolution |-> <<lab.field.w, lab.field.h>>,
                                       uDecayFactor |-> One,
                                       uDiffuseWeight |-> lab.uDiffuseWeight,
                                       uDeltaTime |-> deltaTime],
                                      lab.field.w, lab.field.h, gpu),
                 !.uDeltaTime = deltaTime,
                 !.n = @ + 1]
  /\ UNCHANGED <<sim, canvas, hash, lastOp, ops, frag, app, gpu>>

DiffuseNext == DiffusePass

SpecDiffuse == DiffuseInit /\ [][DiffuseNext]_vars

(***************************************************************************)
(* The agentSim pass alone, rendered MaxExplore times on a field of two     *)
(* agents and two padding texels over a trail map that is not changed;     *)
(* reads collects, for every fragment that called random(), its texel, the *)
(* position it read, uTime, st and the turn that the pass applied.         *)
(***************************************************************************)
MaxExplore == 2

\* agents: two at the same place with different headings, one elsewhere
ParticleSamples ==
  { [x |-> 500, y |-> 500, z |-> 0, a |-> One],
    [x |-> 500, y |-> 500, z |-> 180, a |-> One],
    [x |-> 250, y |-> 750, z |-> 0, a |-> One] }

\* trail maps of 2 x 2 texels
TrailSamples == [1..4 -> {0, One}]

\* values of uTime
ExploreTimes == {0, One \div 2}

\* the uniforms of the pass: the Step Size slider moved to 0.3
ExploreUniforms == [DefaultUniforms(2, 2, 2) EXCEPT !.uStepSize = 3 * (One \div 10)]

ExploreInit ==
  /\ Constructed(<<2, 2>>, 1)
  /\ frag = NoFragment
  /\ app = App
  /\ gpu = <<>>
  /\ \E agents \in [1..2 -> ParticleSamples], trail \in TrailSamples :
       lab = [phase |-> "explore",
              agentState |-> [w |-> 2, h |-> 2,
                              data |-> agents \o <<ZeroTexel, ZeroTexel>>],
              trailMap |-> [w |-> 2, h |-> 2, data |-> trail],
              reads |-> {}, n |-> 0]

\* the calls of random() of one render: before and after are the agent
\* field read and the field written
ReadsOf(before, after, trailMap, u, time, size) ==
  { [texel |-> i, uTime |-> time,
     st |-> RandomKey((i - 1) % size, (i - 1) \div size, size, time),
     x |-> before.data[i].x, y |-> before.data[i].y,
     turn |-> after.data[i].z - before.data[i].z] :
    i \in {j \in 1..(size * size) :
             Bind(Sense(before.data[j], trailMap, u), LAMBDA r :
               RotateBranch(r.L, r.F, r.R) = "random")} }

\* renderer.render(agentSimScene) with uTime = time
Explore ==
  /\ lab.n < MaxExplore
  /\ \E time \in ExploreTimes :
       \E new \in NewEntries(RandomKeysRead(lab.agentState, lab.trailMap,
                                            ExploreUniforms, time, 2)) :
         /\ hash' = new @@ hash
         /\ lab' = Bind(RenderAgentSim(lab.agentState, lab.trailMap,
                                       ExploreUniforms, time, 2, hash'),
                        LAMBDA after :
                          [lab EXCEPT
                             !.agentState = after,
                             !.reads = @ \cup ReadsOf(lab.agentState, after,
                                                      lab.trailMap,
                                                      ExploreUniforms, time, 2),
                             !.n = @ + 1])
  /\ UNCHANGED <<sim, canvas, lastOp, ops, frag, app, gpu>>

ExploreNext == Explore

SpecExplore == ExploreInit /\ [][ExploreNext]_vars

(***************************************************************************)
(* One fragment of the agentSim pass on binary32 values: the particle it   *)
(* reads, the sensor readings, the value of random() and the uniforms are  *)
(* drawn from the samples below; Fragment runs main() on them.             *)
(***************************************************************************)
\* particle.z: 0, 0.25, 0.5, 0.625, 0.029
HeadingSamples ==
  {F32Zero, F32(1, 8388608, -25), F32Half, F32(1, 10485760, -24),
   F32(1, 15569256, -29)}

\* particle.x: 0, 0.001, the float below 0.1, 0.5
XSamples == {F32Zero, F32(1, 8589935, -33), F32(1, 13421772, -27), F32Half}

\* particle.y: 0, 0.5
YSamples == {F32Zero, F32Half}

\* texture2D(uTrailMap, ...).r
ReadingSamples == {F32Zero, F32One}

\* random(): 0, 0.5, 0.75
RandSamples == {F32Zero, F32Half, F32(1, 12582912, -24)}

\* uStepSize: 0.01, 0.1, 0.5, 20.0
StepSizeSamples ==
  {F32(1, 10737418, -30), F32(1, 13421773, -27), F32Half, F32(1, 10485760, -19)}

\* uRotationAngle: 45.0 * (Math.PI / 180)
RotationAngleSamples == {F32(1, 13176795, -24)}

FragmentInputs ==
  [particle : [x : XSamples, y : YSamples, z : HeadingSamples, a : {F32One}],
   L : ReadingSamples, F : ReadingSamples, R : ReadingSamples,
   rand : RandSamples,
   u : [uRotationAngle : RotationAngleSamples, uStepSize : StepSizeSamples]]

KernelInit ==
  /\ Constructed(<<2, 2>>, 1)
  /\ \E in \in FragmentInputs : frag = [phase |-> "input", in |-> in, out |-> <<>>]
  /\ app = App
  /\ gpu = <<>>
  /\ lab = NoLab

Fragment ==
  /\ frag.phase = "input"
  /\ frag' = [frag EXCEPT
        !.phase = "output",
        !.out = main32(frag.in.particle, frag.in.L, frag.in.F, frag.in.R,
                       frag.in.rand, frag.in.u)]
  /\ UNCHANGED <<sim, canvas, hash, lastOp, ops, app, gpu, lab>>

KernelNext == Fragment

SpecKernel == KernelInit /\ [][KernelNext]_vars

(***************************************************************************)
(* Properties                                                              *)
(***************************************************************************)
\* the names of the passes of the last call, in order
PassNames == [i \in 1..Len(sim.passes) |-> sim.passes[i].pass]

IsFramePass(name) == name \in {"AgentUpdate", "TrailDeposit", "DiffuseDecay", "Display"}

\* C1: in every reachable state the front and back agent render targets are
\* two different resources, and so are the front and back trail render
\* targets.
C1_FrontBackDistinct ==
  /\ sim.agentsRenderTargetA # sim.agentsRenderTargetB
  /\ sim.trailRenderTargetA # sim.trailRenderTargetB
  /\ sim.agentsRenderTargetA \in DOMAIN sim.tex
  /\ sim.agentsRenderTargetB \in DOMAIN sim.tex

\* an update() after a resetSimulation(), the agent targets exchanged
C1_Witness ==
  /\ lastOp = "update"
  /\ sim.nextId > 6
  /\ sim.agentsRenderTargetA = 2
  /\ sim.agentsRenderTargetB = 1

\* C2: every update() runs Agent Update, Trail Deposit, Diffuse-Decay and
\* the Display binding, in this order, each exactly once.
C2_PassOrder ==
  lastOp = "update" =>
    SelectSeq(PassNames, IsFramePass)
      = <<"AgentUpdate", "TrailDeposit", "DiffuseDecay", "Display">>

\* an update() that follows a resetSimulation() and a resize()
C2_Witness ==
  /\ lastOp = "update"
  /\ sim.nextId > 6
  /\ sim.blurMaterial.uResolution # <<sim.tex[sim.trailRenderTargetA].w,
                                      sim.tex[sim.trailRenderTargetA].h>>
  /\ Len(sim.passes) = 5

InUnitInterval(v) == ~F32Less(v, F32Zero) /\ F32Less(v, F32One)

\* C3: after a step both coordinates of the agent's position lie in [0, 1).
C3_WrapInvariant ==
  frag.phase = "output" =>
    /\ InUnitInterval(frag.out.gl_FragColor.x)
    /\ InUnitInterval(frag.out.gl_FragColor.y)

\* C4: when the three sensor readings are equal, the heading stored after
\* the step is identical to the heading stored before it.
C4_TieKeepsHeading ==
  (frag.phase = "output" /\ frag.in.F = frag.in.L /\ frag.in.L = frag.in.R)
    => frag.out.gl_FragColor.z = frag.in.particle.z

\* C5: with the readings front = 0, left = 1, right = 0 the heading of the
\* step is the old heading minus uRotationAngle.
C5_LeftTurn ==
  (frag.phase = "output" /\ frag.in.F = F32Zero /\ frag.in.L = F32One
     /\ frag.in.R = F32Zero)
    => /\ frag.out.newAngle
            = F32Sub(Angle32(frag.in.particle.z), frag.in.u.uRotationAngle)
       /\ frag.out.gl_FragColor.z = Heading32(frag.out.newAngle)

\* a fragment with these readings whose heading has decreased
C5_Witness ==
  /\ frag.phase = "output"
  /\ frag.in.F = F32Zero /\ frag.in.L = F32One /\ frag.in.R = F32Zero
  /\ F32Less(frag.out.newAngle, frag.out.angle)
  /\ F32Less(frag.out.gl_FragColor.z, frag.in.particle.z)

\* C6: the new position is the old position plus uStepSize times the unit
\* vector of the new heading, reduced by fract on each axis; an agent at
\* (0.001, 0.5) that moves in the -x direction with step size 0.01 ends at
\* (0.991, 0.5).
C6_MoveAlongNewHeading ==
  frag.phase = "output" =>
    LET p    == frag.in.particle
        step == frag.in.u.uStepSize
        c    == frag.out.gl_FragColor
        dx   == F32Mul(cos32(frag.out.newAngle), step)
        dy   == F32Mul(sin32(frag.out.newAngle), step)
    IN  /\ c.x = F32Sub(F32Add(p.x, dx), F32Floor(F32Add(p.x, dx)))
        /\ c.y = F32Sub(F32Add(p.y, dy), F32Floor(F32Add(p.y, dy)))
        /\ (p.x = F32(1, 8589935, -33) /\ p.y = F32Half
              /\ step = F32(1, 10737418, -30) /\ frag.out.newAngle = F32PI)
             => (c.x = F32(1, 16626221, -24) /\ c.y = F32Half)

\* the agent at (0.001, 0.5) that turns from heading 0.625 to the -x
\* direction and ends at (0.991, 0.5)
C6_Witness ==
  /\ frag.phase = "output"
  /\ frag.in.particle.x = F32(1, 8589935, -33)
  /\ frag.in.particle.y = F32Half
  /\ frag.in.u.uStepSize = F32(1, 10737418, -30)
  /\ frag.out.angle # frag.out.newAngle
  /\ frag.out.newAngle = F32PI
  /\ frag.out.gl_FragColor.x = F32(1, 16626221, -24)
  /\ frag.out.gl_FragColor.y = F32Half

TrailsZero(s) ==
  \A id \in {s.trailRenderTargetA, s.trailRenderTargetB} :
    \A i \in DOMAIN s.tex[id].data : s.tex[id].data[i] = 0

\* C7: resetSimulation() leaves both trail buffers all zero and the agent
\* count as it was, and the update() that follows it uses the nominal delta
\* time, whatever its time argument.
C7_ResetRestarts ==
  [][/\ lastOp' = "resetSimulation" =>
          /\ TrailsZero(sim')
          /\ sim'.uniforms.uNumAgents = sim.uniforms.uNumAgents
          /\ sim'.depositCount = sim.depositCount
     /\ (lastOp = "resetSimulation" /\ lastOp' = "update") =>
          /\ sim'.agentSimMaterial.uDeltaTime = NominalDt
          /\ sim'.blurMaterial.uDeltaTime = NominalDt]_vars

\* update(2 s) as the third call, after a resetSimulation(), on the nominal
\* delta time
C7_Witness ==
  /\ lastOp = "update"
  /\ ops = 3
  /\ sim.nextId > 6
  /\ sim.lastTime = 2 * One
  /\ sim.blurMaterial.uDeltaTime = NominalDt

\* the texel lies in the disk of the given radius around (0.5, 0.5), up to
\* one grid unit of rounding
InDisk(texel, r) ==
  (texel.x - One \div 2) * (texel.x - One \div 2)
    + (texel.y - One \div 2) * (texel.y - One \div 2) <= (r + 1) * (r + 1)

\* C8: right after construction and right after resetSimulation() every
\* active agent's position in the front agent buffer is a point of the disk
\* of radius 0.1 around the centre of the field.
C8_SeededInsideDisk ==
  lastOp \in {"constructor", "resetSimulation"} =>
    LET front == sim.tex[sim.agentsRenderTargetA]
    IN  \A i \in 1..Min2(sim.uniforms.uNumAgents, Len(front.data)) :
          InDisk(front.data[i], radius)

\* C9: while the simulation has not been torn down, no texture of the agent
\* or trail render targets has been disposed.
C9_BuffersNotDisposed ==
  ~sim.disposedSelf =>
    sim.disposed \cap {sim.agentsRenderTargetA, sim.agentsRenderTargetB,
                       sim.trailRenderTargetA, sim.trailRenderTargetB} = {}

\* C10: whenever a step or a reset has used the agent buffers, their side
\* is ceil(sqrt(uNumAgents)) for the current value of uNumAgents.
C10_AgentFieldSide ==
  lastOp \in {"update", "resetSimulation"} =>
    \A id \in {sim.agentsRenderTargetA, sim.agentsRenderTargetB} :
      /\ sim.tex[id].w = CeilSqrt(sim.uniforms.uNumAgents)
      /\ sim.tex[id].h = CeilSqrt(sim.uniforms.uNumAgents)

\* C11: after a resize() the width and height of both trail render targets
\* are the resolution handed to the Diffuse-Decay pass.
C11_ResizeReallocatesTrail ==
  lastOp = "resize" =>
    \A id \in {sim.trailRenderTargetA, sim.trailRenderTargetB} :
      <<sim.tex[id].w, sim.tex[id].h>> = sim.blurMaterial.uResolution

\* C12: resize() leaves both agent render targets as they were: which is
\* front, their dimensions and their contents.
C12_ResizeKeepsAgents ==
  [][lastOp' = "resize" =>
       /\ sim'.agentsRenderTargetA = sim.agentsRenderTargetA
       /\ sim'.agentsRenderTargetB = sim.agentsRenderTargetB
       /\ sim'.tex[sim'.agentsRenderTargetA] = sim.tex[sim.agentsRenderTargetA]
       /\ sim'.tex[sim'.agentsRenderTargetB] = sim.tex[sim.agentsRenderTargetB]]_vars

\* a resize() to another canvas size after an update() has exchanged the
\* agent targets and written agents into both
C12_Witness ==
  /\ lastOp = "resize"
  /\ sim.agentsRenderTargetA = 2
  /\ sim.blurMaterial.uResolution = <<3, 2>>
  /\ sim.tex[sim.trailRenderTargetA].w = 2
  /\ sim.tex[2] # createAgentRenderTarget(sim.depositCount)

\* C13: the delta time that update() hands to the Agent Update and
\* Diffuse-Decay passes is never negative.
C13_DeltaTimeNonNegative ==
  lastOp = "update" =>
    /\ sim.agentSimMaterial.uDeltaTime >= 0
    /\ sim.blurMaterial.uDeltaTime >= 0

\* C14: every texel of both trail render targets holds a non-negative
\* intensity.
C14_TrailNonNegative ==
  \A id \in {sim.trailRenderTargetA, sim.trailRenderTargetB} :
    \A i \in DOMAIN sim.tex[id].data : sim.tex[id].data[i] >= 0

\* the largest difference between two fields, texel by texel
FieldDistance(a, b) ==
  LET Abs(x) == IF x < 0 THEN 0 - x ELSE x
      diffs == {Abs(a.data[i] - b.data[i]) : i \in DOMAIN a.data}
  IN  CHOOSE d \in diffs : \A e \in diffs : e <= d

\* C15: N Diffuse-Decay passes of delta time 1 s and 2N passes of delta
\* time 0.5 s multiply a field by the same factor (up to the rounding of
\* the arithmetic, 4 grid units); uDecayFactor = 1.0 leaves the field as it
\* was, and uDecayFactor = 0.0 clears it in one pass.
C15_DecayComposes ==
  lab.phase = "decay" =>
    /\ lab.nFine = 2 * lab.nCoarse => FieldDistance(lab.coarse, lab.fine) <= 4
    /\ lab.uDecayFactor = One =>
          lab.coarse.data = lab.field0 /\ lab.fine.data = lab.field0
    /\ (lab.uDecayFactor = 0 /\ lab.nCoarse >= 1) =>
          \A i \in DOMAIN lab.coarse.data : lab.coarse.data[i] = 0
    /\ (lab.uDecayFactor = 0 /\ lab.nFine >= 1) =>
          \A i \in DOMAIN lab.fine.data : lab.fine.data[i] = 0

\* two passes of 1 s and four of 0.5 s have taken the field <<0, 1, 5,
\* 0.037>> to the same non-zero field, 0.2 being the decay factor
C15_Witness ==
  /\ lab.phase = "decay"
  /\ lab.uDecayFactor = 200
  /\ lab.field0 = <<0, One, 5 * One, 37>>
  /\ lab.nCoarse = 2 /\ lab.nFine = 4
  /\ lab.coarse.data[3] = 200
  /\ lab.fine.data[3] \in 196..204

\* the largest intensity in a trail render target
MaxIntensity(s, id) ==
  LET values == {s.tex[id].data[i] : i \in DOMAIN s.tex[id].data}
  IN  CHOOSE v \in values : \A u \in values : u <= v

\* D * m / (1 - m), or D when that is smaller, for the deposit amount D and
\* the retention m = uDecayFactor ^ (frame time) of one frame
DepositCeiling(s, frameTime) ==
  LET D == s.uniforms.uDepositAmount
      m == PowHalves(s.uniforms.uDecayFactor, (2 * frameTime) \div One)
  IN  Max2(D, (D * m) \div (One - m))

\* C16: from an all-zero trail field, with one agent that stays in place
\* and uDecayFactor < 1.0, the intensity of every texel of the trail field
\* stays at or below one ceiling, which depends on the deposit amount, the
\* decay factor and the frame time only, after every number of frames; the
\* copy that holds the field with the frame's deposit added, before the
\* decay, stays at or below that ceiling plus one deposit.
C16_DepositBounded ==
  (sim.depositCount = 1 /\ sim.uniforms.uStepSize = 0) =>
    /\ MaxIntensity(sim, sim.trailRenderTargetA)
         <= DepositCeiling(sim, app.timeSpeed * One)
    /\ MaxIntensity(sim, sim.trailRenderTargetB)
         <= DepositCeiling(sim, app.timeSpeed * One) + sim.uniforms.uDepositAmount

\* six frames have been drawn, the trail is not zero, and the last frame
\* did not raise the intensity above that of the first
C16_Witness ==
  /\ sim.depositCount = 1 /\ sim.uniforms.uStepSize = 0
  /\ lastOp = "update"
  /\ ops >= 6
  /\ sim.uniforms.uDecayFactor = 250
  /\ sim.uniforms.uDiffuseWeight = One
  /\ MaxIntensity(sim, sim.trailRenderTargetA) > 0
  /\ MaxIntensity(sim, sim.trailRenderTargetA) < sim.uniforms.uDepositAmount

C19_NoPassReadsItsTarget ==
  \A i \in 1..Len(sim.passes) : sim.passes[i].target \notin sim.passes[i].reads

\* the seeding render of a resetSimulation() that follows an update(), with
\* the trail field of that update still bound
C19_Witness ==
  /\ lastOp = "resetSimulation"
  /\ Len(sim.passes) = 1
  /\ sim.passes[1].target = sim.agentsRenderTargetA
  /\ sim.trailRenderTargetA \in sim.passes[1].reads
  /\ sim.agentsRenderTargetA = 2

\* C20: in every update() the agent pass reads the front agent buffer and
\* the trail field as the frame before left them and writes the back
\* buffer; the copy pass copies that trail field; the deposit pass reads the
\* agent buffer just written and draws onto the copy; the Diffuse-Decay pass
\* reads the copy with the deposits and writes the trail field.
C20_FrameDataFlow ==
  [][lastOp' = "update" =>
       LET oldFront == sim.agentsRenderTargetA
           newFront == sim.agentsRenderTargetB
           A == sim.trailRenderTargetA
           B == sim.trailRenderTargetB
           written == RenderAgentSim(sim.tex[oldFront], sim.tex[A], sim.uniforms,
                                     sim'.lastTime, sim.tex[newFront].w, hash')
           deposited == RenderDeposit(RenderCopy(sim.tex[A], sim.tex[B].w,
                                                 sim.tex[B].h),
                                      written, sim.uniforms, sim.depositCount)
       IN  /\ SubSeq(sim'.passes, 1, 4)
                = <<Pass("AgentUpdate", newFront, {oldFront, A}),
                    Pass("Copy", B, {A}),
                    Pass("TrailDeposit", B, {newFront}),
                    Pass("DiffuseDecay", A, {B})>>
           /\ sim'.agentsRenderTargetA = newFront
           /\ sim'.tex[newFront] = written
           /\ sim'.tex[B] = deposited
           /\ sim'.blurMaterial.uTrailMap = B
           /\ sim'.tex[A] = RenderBlur([sim'.blurMaterial EXCEPT
                                          !.uTrailMap = deposited],
                                       sim.tex[A].w, sim.tex[A].h, gpu')]_vars

\* a second update() in a row: the frame before has left agents that are
\* not where the constructor put them and a trail field that is not zero
C20_Witness ==
  /\ lastOp = "update"
  /\ ops = 2
  /\ sim.nextId = 6
  /\ sim.agentsRenderTargetA = 1
  /\ sim.disposed = {}
  /\ \E i \in DOMAIN sim.tex[sim.trailRenderTargetA].data :
        sim.tex[sim.trailRenderTargetA].data[i] > 0
  /\ sim.tex[1] # sim.tex[2]

\* the targets of the passes of the last call whose name is in names
TargetsOf(names) ==
  {sim.passes[i].target : i \in {j \in 1..Len(sim.passes) : sim.passes[j].pass \in names}}

\* C21: after the constructor, every update() and every resetSimulation()
\* the display material's agent handle is the agent buffer that the call's
\* agent pass or seeding render wrote, its trail handle is the trail buffer
\* that the Diffuse-Decay pass wrote or that was cleared, and the display
\* binding writes to no render target.
C21_DisplayReadsFront ==
  lastOp \in {"constructor", "update", "resetSimulation"} =>
    /\ sim.material.uAgentState = sim.agentsRenderTargetA
    /\ TargetsOf({"AgentUpdate", "AgentSeed"}) = {sim.material.uAgentState}
    /\ sim.material.uTrailMap = sim.trailRenderTargetA
    /\ TargetsOf({"DiffuseDecay"}) \subseteq {sim.material.uTrailMap}
    /\ TargetsOf({"Display"}) \subseteq {NullId}

\* a resetSimulation() after an update() that exchanged the agent buffers
C21_Witness ==
  /\ lastOp = "resetSimulation"
  /\ sim.agentsRenderTargetA = 2
  /\ sim.material.uAgentState = 2
  /\ sim.passes[1].target = 2

F32LessEq(a, b) == ~F32Less(b, a)

\* C22 as stated: whenever the front reading is greater than or equal to
\* both the left and the right reading, also with front = left > right and
\* front = right > left, the step applies no rotation.
C22_FrontNotBelowKeepsHeading ==
  (frag.phase = "output" /\ F32LessEq(frag.in.L, frag.in.F)
     /\ F32LessEq(frag.in.R, frag.in.F))
    => frag.out.newAngle = frag.out.angle

\* C22 amended: when the front reading is strictly greater than both side
\* readings, or all three are equal, the step applies no rotation and stores
\* the re-encoded old angle; with front = left > right it turns left and
\* with front = right > left it turns right, by uRotationAngle.
C22_FrontAboveKeepsHeading ==
  frag.phase = "output" =>
    LET L == frag.in.L
        F == frag.in.F
        R == frag.in.R
        rot == frag.in.u.uRotationAngle
    IN  /\ ((F32Less(L, F) /\ F32Less(R, F)) \/ (F = L /\ F = R))
             => /\ frag.out.newAngle = frag.out.angle
                /\ frag.out.gl_FragColor.z = Heading32(frag.out.angle)
        /\ (F = L /\ F32Less(R, L))
             => frag.out.newAngle = F32Sub(frag.out.angle, rot)
        /\ (F = R /\ F32Less(L, R))
             => frag.out.newAngle = F32Add(frag.out.angle, rot)

\* a fragment whose three readings are equal and one whose front reading is
\* the strict maximum, both with the angle kept
C22_Witness ==
  /\ frag.phase = "output"
  /\ frag.in.F = F32One
  /\ \/ frag.in.L = F32One /\ frag.in.R = F32One
     \/ frag.in.L = F32Zero /\ frag.in.R = F32Zero
  /\ frag.out.newAngle = frag.out.angle
  /\ frag.in.particle.z # F32Zero

\* (rand - 0.5) * uRotationAngle * 2.0
RandomOffset32(rand, uRotationAngle) ==
  F32Mul(F32Mul(F32Sub(rand, F32Half), uRotationAngle), F32Two)

\* C23 as stated: whenever the front reading is less than or equal to both
\* side readings and not greater than or equal to both, also with
\* front = left < right and front = right < left, the new angle is the old
\* angle plus the pseudo-random offset, which lies in
\* [-uRotationAngle, +uRotationAngle].
C23_FrontNotAboveTurnsRandomly ==
  (frag.phase = "output" /\ F32LessEq(frag.in.F, frag.in.L)
     /\ F32LessEq(frag.in.F, frag.in.R)
     /\ ~(F32LessEq(frag.in.L, frag.in.F) /\ F32LessEq(frag.in.R, frag.in.F)))
    => LET offset == RandomOffset32(frag.in.rand, frag.in.u.uRotationAngle)
       IN  /\ frag.out.newAngle = F32Add(frag.out.angle, offset)
           /\ F32LessEq(F32Neg(frag.in.u.uRotationAngle), offset)
           /\ F32LessEq(offset, frag.in.u.uRotationAngle)

\* C23 amended: when the front reading is strictly less than both side
\* readings the new angle is the old angle plus the pseudo-random offset,
\* which lies in [-uRotationAngle, +uRotationAngle]; with front = left <
\* right the turn is exactly +uRotationAngle and with front = right < left
\* exactly -uRotationAngle.
C23_FrontBelowTurnsRandomly ==
  frag.phase = "output" =>
    LET L == frag.in.L
        F == frag.in.F
        R == frag.in.R
        rot == frag.in.u.uRotationAngle
        offset == RandomOffset32(frag.in.rand, rot)
    IN  /\ (F32Less(F, L) /\ F32Less(F, R))
             => /\ frag.out.newAngle = F32Add(frag.out.angle, offset)
                /\ F32LessEq(F32Neg(rot), offset)
                /\ F32LessEq(offset, rot)
        /\ (F = L /\ F32Less(L, R))
             => frag.out.newAngle = F32Add(frag.out.angle, rot)
        /\ (F = R /\ F32Less(R, L))
             => frag.out.newAngle = F32Sub(frag.out.angle, rot)

\* a fragment with the front reading strictly lowest and rand = 0.75, whose
\* angle has grown by half of uRotationAngle
C23_Witness ==
  /\ frag.phase = "output"
  /\ frag.in.F = F32Zero /\ frag.in.L = F32One /\ frag.in.R = F32One
  /\ frag.in.rand = F32(1, 12582912, -24)
  /\ F32Less(frag.out.angle, frag.out.newAngle)
  /\ F32Less(frag.out.newAngle, F32Add(frag.out.angle, frag.in.u.uRotationAngle))

DepositReaders(t) ==
  {k \in 0..(sim.depositCount - 1) :
     trailMapVertTexel(k, sim.tex[sim.agentsRenderTargetA],
                       sim.uniforms.uNumAgents) = t}

\* C25: in every update() the Trail Deposit pass reads each agent texel
\* 0 .. uNumAgents - 1 of the current agent field exactly once and no
\* padding texel, also after the agent-count slider was moved or the
\* simulation was reset.
C25_DepositSamplesActiveAgents ==
  lastOp = "update" =>
    \A t \in 0..(Len(sim.tex[sim.agentsRenderTargetA].data) - 1) :
      Cardinality(DepositReaders(t))
        = (IF t < sim.uniforms.uNumAgents THEN 1 ELSE 0)

RECURSIVE SumSeq(_)
SumSeq(seq) == IF seq = <<>> THEN 0 ELSE Head(seq) + SumSeq(Tail(seq))

\* the orders in which n agents can be drawn
DrawOrders(n) == {o \in [1..n -> 0..(n - 1)] : \A a, b \in 1..n : o[a] = o[b] => a = b}

\* the sums of the contributions of the agents 0 .. n-1 to the fragment
\* (px, py), one sum for each order of orders (o[j] is the j-th drawn)
SplatSums(orders, n, agentState, u, px, py, w, h) ==
  Bind([k \in 0..(n - 1) |->
          trailMapFrag(trailMapVert(k, agentState, u.uNumAgents),
                       px, py, w, h, u.uDepositAmount)],
       LAMBDA splat : {SumSeq([j \in 1..n |-> splat[o[j]]]) : o \in orders})

Neighbourhood(field, i) ==
  LET px == (i - 1) % field.w
      py == (i - 1) \div field.w
  IN  [k \in 1..9 |->
         field.data[clamp(py + ((k - 1) \div 3) - 1, 0, field.h - 1) * field.w
                    + clamp(px + ((k - 1) % 3) - 1, 0, field.w - 1) + 1]]

C28_DeltaTimeIsDifference ==
  [][(lastOp = "update" /\ lastOp' = "update" /\ ops' = ops + 1) =>
       /\ sim'.agentSimMaterial.uDeltaTime = sim'.lastTime - sim.lastTime
       /\ sim'.blurMaterial.uDeltaTime = sim'.lastTime - sim.lastTime]_vars

\* C29: the elapsed time that animate() hands to update() does not change
\* when "Pause / Resume" is clicked, neither at the pause nor at the resume,
\* and does not change while the clock is paused and time passes.
C29_PauseHoldsElapsedTime ==
  [][LET click  == lastOp' = "togglePause" /\ ops' = ops + 1
         passes == app'.now # app.now /\ app.isPaused
     IN  (click \/ passes) => getElapsedTime(app') = getElapsedTime(app)]_vars

\* C30: ControlPanel.isPaused equals App.isPaused after every sequence of
\* "Pause / Resume" clicks, "Reset Time" clicks and speed changes.
C30_PanelAgreesWithApp == app.panelPaused = app.isPaused
====
